---- MODULE Spec2Model ----
(***************************************************************************)
(* Model of the sham crate: the mocked Reqwest client built by             *)
(* create_mock_client, the MockResponse / MockError value types, and the   *)
(* FakeCommand wrapper of std_process.  The expectation machinery the      *)
(* crate configures (times, withf, in_sequence, returning, and the         *)
(* verification run when a mock is dropped) is modelled from the calls the *)
(* crate makes to it.                                                      *)
(***************************************************************************)
EXTENDS Integers, Sequences, FiniteSets, TLC

VARIABLES
    responses,      \* the list handed to create_mock_client
    mock_client,    \* MockClient: the expectations of each verb method
    sequence,       \* Sequence: its satisfaction level
    builders,       \* the MockRequestBuilders returned so far
    client_state,   \* "live", or dropped: "verified" | "failed" (verification)
    calls,          \* log of the verb calls made on the client
    chained,        \* the builders on which body, form, headers or json was
                    \* called, each with the number of sends made before the call
    panic,          \* "none", or the failure (panic) that aborted the run
    built,          \* the MockResponse as constructed
    response,       \* the MockResponse under test
    response_state, \* "live" | "moved" (consumed by error_for_status)
    first_result,   \* per body accessor: what its first call returned
    last_result,    \* per body accessor: what its latest call returned
    status_results, \* what error_for_status / error_for_status_ref returned
    streams,        \* the streams made by bytes_stream, with the polls of each
    argv,           \* the invocation arguments of the process, program name first
    command,        \* FakeCommand.command: the expectations of each method
    command_sequence, \* the satisfaction level of the sequence of FakeCommand::new
    command_state,  \* "live", or dropped: "verified" | "failed" (verification)
    command_calls,  \* log of the calls made on the FakeCommand
    error_built,    \* the MockError as constructed
    error,          \* the MockError under test
    error_ops       \* log of the operations applied to the MockError

client_vars == <<responses, mock_client, sequence, builders, client_state, calls,
                 chained>>

response_vars == <<built, response, response_state, first_result, last_result,
                   status_results, streams>>

command_vars == <<argv, command, command_sequence, command_state, command_calls>>

error_vars == <<error_built, error, error_ops>>

vars == <<client_vars, response_vars, command_vars, error_vars, panic>>

\* ---------------------------------------------------------------- bounds

\* Longest expectation list handed to create_mock_client.
MaxResponses == 2

\* Most streams taken from one response with bytes_stream.
MaxStreams == 2

\* Most polls of one stream.
MaxPolls == 3

\* Most invocation arguments of the process after the program name.
MaxArgs == 2

\* Most URL operations applied to one MockError.
MaxErrorOps == 3

\* ---------------------------------------------------------------- values

None == [some |-> FALSE]
Some(v) == [some |-> TRUE, val |-> v]

Ok(v) == [ok |-> TRUE, val |-> v]
Err(e) == [ok |-> FALSE, val |-> e]

\* URL texts as a caller writes them: a host and a path, each as spelled.
Hosts == {"a", "A", "b"}
Paths == {"", "/"}
UrlTexts == [host : Hosts, path : Paths]

\* Host names are lower-cased when a URL is parsed.
to_lowercase(h) == IF h = "A" THEN "a" ELSE h

\* IntoUrl::into_url on a string: the parsed Url, whose serialization is the
\* normalized text (lower-case host, "/" for an empty path).
into_url(text) ==
    [serialization |->
        [host |-> to_lowercase(text.host),
         path |-> IF text.path = "" THEN "/" ELSE text.path]]

\* Url::as_str: the serialization of a parsed Url.
Url_as_str(url) == url.serialization

\* IntoUrl::as_str on the argument of a verb method: the text as the caller
\* gave it (a caller passing a Url passes an already normalized text).
IntoUrl_as_str(arg) == arg

\* MockError with every flag false, no status and no URL.
MockError_default ==
    [is_body |-> FALSE, is_builder |-> FALSE, is_connect |-> FALSE,
     is_decode |-> FALSE, is_redirect |-> FALSE, is_request |-> FALSE,
     is_status |-> FALSE, is_timeout |-> FALSE, status |-> None, url |-> None]

\* The results a test pairs with its URLs: two responses that differ and an error.
ClientResults ==
    { Ok([url |-> into_url([host |-> "a", path |-> "/"]), status |-> 200,
          headers |-> <<>>, body |-> Ok(<<49>>)]),
      Err([MockError_default EXCEPT !.is_timeout = TRUE]) }

Entries == [url : UrlTexts, result : ClientResults]

ResponseLists == UNION { [1..n -> Entries] : n \in 0..MaxResponses }

\* ------------------------------------------------- expectation machinery

\* Times::call: count the call; it fails when the count exceeds the maximum.
Times_call(e) == e.count + 1 <= e.times_max

\* Times::is_done: the expectation has been called as often as it may be.
is_done(e) == e.count >= e.times_max

\* Times::is_satisfied: the expectation has been called often enough.
is_satisfied(e) == e.count >= e.times_min

\* Iterator::skip(n) and collect: the list without its first n elements.
skip(list, n) == SubSeq(list, n + 1, Len(list))

\* Mutant of expected_args: the program name is not skipped.
expected_args_with_program == argv

\* args().skip(1).collect(): the invocation arguments after the program name.
expected_args == skip(argv, 1)

\* Expectation::matches: the withf predicate of the expectation, if it has
\* one: the URL comparison of create_mock_client, or the argument comparison
\* of FakeCommand::new.
matches(e, arg) ==
    CASE e.withf = "any" -> TRUE
      [] e.withf = "url" -> IntoUrl_as_str(arg) = Url_as_str(e.expected_url)
      [] e.withf = "args" -> arg = expected_args

\* Mutant of verify_sequence: the expectations are not bound into a sequence.
verify_sequence_unordered(e, level) == TRUE

\* SeqHandle::verify: an expectation in a sequence may only be called when
\* every expectation before it in the sequence has been satisfied; an
\* expectation in no sequence is not constrained.
verify_sequence(e, level) == e.in_sequence => e.seq = level

\* Expectations::call: the first expectation, in the order registered, that
\* matches the arguments and is not done (a sole expectation is used even
\* when done); 0 when there is none.
find_expectation(exps, arg) ==
    LET hits == { i \in 1..Len(exps) :
                    matches(exps[i], arg)
                    /\ (~is_done(exps[i]) \/ Len(exps) = 1) }
    IN  IF hits = {} THEN 0 ELSE CHOOSE i \in hits : \A j \in hits : i <= j

\* A call of a mocked method with expectations exps while the sequence is at
\* level: the expectations and the level afterwards, the expectation used
\* (0 for none) and the failure raised ("none" when the call is accepted).
mock_call(exps, level, arg) ==
    LET i == find_expectation(exps, arg) IN
    IF i = 0
    THEN [exps |-> exps, level |-> level, used |-> 0,
          panic |-> "No matching expectation found"]
    ELSE LET counted == [exps EXCEPT ![i].count = @ + 1] IN
         IF ~Times_call(exps[i])
         THEN [exps |-> counted, level |-> level, used |-> i,
               panic |-> "called more times than expected"]
         ELSE IF ~verify_sequence(exps[i], level)
         THEN [exps |-> counted, level |-> level, used |-> i,
               panic |-> "Method sequence violation"]
         ELSE [exps |-> counted,
               level |-> IF exps[i].in_sequence /\ is_satisfied(counted[i])
                         THEN level + 1 ELSE level,
               used |-> i, panic |-> "none"]

\* Mutant of verify: dropping a mock checks nothing.
verify_nothing(exps) == TRUE

\* Dropping a mock verifies it: every expectation must have been satisfied.
verify(exps) == \A i \in 1..Len(exps) : is_satisfied(exps[i])

\* ------------------------------------------------------ create_mock_client

\* Mutant of new_request_builder: the send expectation is registered without
\* times(1), so it may be called any number of times.
new_request_builder_any_times(mock_response) ==
    [send |-> <<[withf |-> "any", times_min |-> 0, times_max |-> 3, count |-> 0,
                 in_sequence |-> FALSE, seq |-> 0,
                 mock_response |-> mock_response]>>,
     state |-> "live", returned |-> <<>>]

\* Mutant of new_request_builder: the send expectation is put in the sequence
\* of the get expectations.
new_request_builder_in_sequence(mock_response) ==
    [send |-> <<[withf |-> "any", times_min |-> 1, times_max |-> 1, count |-> 0,
                 in_sequence |-> TRUE, seq |-> 0,
                 mock_response |-> mock_response]>>,
     state |-> "live", returned |-> <<>>]

\* The MockRequestBuilder made by the returning closure of a get expectation:
\* one send expectation, exactly once, returning a clone of the response.
new_request_builder(mock_response) ==
    [send |-> <<[withf |-> "any", times_min |-> 1, times_max |-> 1, count |-> 0,
                 in_sequence |-> FALSE, seq |-> 0,
                 mock_response |-> mock_response]>>,
     state |-> "live", returned |-> <<>>]

\* The get expectation registered for one list entry.
expect_get(entry, i) ==
    [withf |-> "url", expected_url |-> into_url(entry.url),
     times_min |-> 1, times_max |-> 1, count |-> 0,
     in_sequence |-> TRUE, seq |-> i - 1,
     mock_response |-> entry.result]

\* Mutant of create_mock_client: the expectations are registered for post as
\* well as for get.
create_mock_client_post_too(list) ==
    [get |-> [i \in 1..Len(list) |-> expect_get(list[i], i)],
     post |-> [i \in 1..Len(list) |-> expect_get(list[i], i)],
     put |-> <<>>, patch |-> <<>>, delete |-> <<>>]

\* create_mock_client: one get expectation per entry, in list order, all in
\* one sequence; no expectation for any other verb.
create_mock_client(list) ==
    [get |-> [i \in 1..Len(list) |-> expect_get(list[i], i)],
     post |-> <<>>, put |-> <<>>, patch |-> <<>>, delete |-> <<>>]

\* ------------------------------------------------------- parts not in use

\* No client is under test.
ClientUnused ==
    /\ responses = <<>>
    /\ mock_client = create_mock_client(<<>>)
    /\ sequence = 0
    /\ builders = <<>>
    /\ client_state = "unused"
    /\ calls = <<>>
    /\ chained = {}

\* No command is under test.
CommandUnused ==
    /\ argv = <<>>
    /\ command = <<>>
    /\ command_sequence = 0
    /\ command_state = "unused"
    /\ command_calls = <<>>

\* No error is under test.
ErrorUnused ==
    /\ error_built = None
    /\ error = None
    /\ error_ops = <<>>

\* No response is under test.
ResponseUnused ==
    /\ built = None
    /\ response = None
    /\ response_state = "unused"
    /\ first_result = <<>>
    /\ last_result = <<>>
    /\ status_results = <<>>
    /\ streams = <<>>

\* ---------------------------------------------------------- client actions

ClientInit ==
    /\ ErrorUnused
    /\ ResponseUnused
    /\ CommandUnused
    /\ responses \in ResponseLists
    /\ mock_client = create_mock_client(responses)
    /\ sequence = 0
    /\ builders = <<>>
    /\ client_state = "live"
    /\ calls = <<>>
    /\ chained = {}
    /\ panic = "none"

\* Number of verb calls accepted so far.
Accepted == Cardinality({ j \in 1..Len(calls) : calls[j].accepted })

\* MockClient::get(url)
Get(url) ==
    /\ panic = "none"
    /\ client_state = "live"
    /\ LET r == mock_call(mock_client.get, sequence, url) IN
       /\ mock_client' = [mock_client EXCEPT !.get = r.exps]
       /\ sequence' = r.level
       /\ panic' = r.panic
       /\ IF r.panic = "none"
          THEN /\ builders' = Append(builders,
                                  new_request_builder(r.exps[r.used].mock_response))
               /\ calls' = Append(calls, [method |-> "get", url |-> url, k |-> Accepted,
                                          accepted |-> TRUE, builder |-> Len(builders) + 1])
          ELSE /\ builders' = builders
               /\ calls' = Append(calls, [method |-> "get", url |-> url, k |-> Accepted,
                                          accepted |-> FALSE, builder |-> 0])
    /\ UNCHANGED <<responses, client_state>>
    /\ UNCHANGED <<chained, response_vars, command_vars, error_vars>>

\* MockRequestBuilder::send on builder b
Send(b) ==
    /\ panic = "none"
    /\ builders[b].state = "live"
    /\ LET r == mock_call(builders[b].send, sequence, "send") IN
       /\ panic' = r.panic
       /\ builders' =
            [builders EXCEPT
               ![b].send = r.exps,
               ![b].returned = IF r.panic = "none"
                               THEN Append(@, r.exps[r.used].mock_response)
                               ELSE @]
    /\ UNCHANGED <<responses, mock_client, sequence, client_state, calls>>
    /\ UNCHANGED <<chained, response_vars, command_vars, error_vars>>

\* Dropping builder b verifies its send expectation.
DropBuilder(b) ==
    /\ panic = "none"
    /\ builders[b].state = "live"
    /\ IF verify(builders[b].send)
       THEN /\ builders' = [builders EXCEPT ![b].state = "verified"]
            /\ panic' = panic
       ELSE /\ builders' = [builders EXCEPT ![b].state = "failed"]
            /\ panic' = "called fewer times than expected"
    /\ UNCHANGED <<responses, mock_client, sequence, client_state, calls>>
    /\ UNCHANGED <<chained, response_vars, command_vars, error_vars>>

\* Dropping the client verifies its expectations.
DropClient ==
    /\ panic = "none"
    /\ client_state = "live"
    /\ IF verify(mock_client.get)
       THEN /\ client_state' = "verified"
            /\ panic' = panic
       ELSE /\ client_state' = "failed"
            /\ panic' = "called fewer times than expected"
    /\ UNCHANGED <<responses, mock_client, sequence, builders, calls>>
    /\ UNCHANGED <<chained, response_vars, command_vars, error_vars>>

ClientNext ==
    \/ \E url \in UrlTexts : Get(url)
    \/ \E b \in 1..Len(builders) : Send(b)
    \/ \E b \in 1..Len(builders) : DropBuilder(b)
    \/ DropClient

SpecClient == ClientInit /\ [][ClientNext]_vars

\* ------------------------------------- MockRequestBuilder: body and the like

\* What a caller passes to body, form, headers or json.
Payloads == {"payload"}

\* Mutant of MockRequestBuilder_body: the builder returned is a new one, its
\* send expectation not yet called.
MockRequestBuilder_body_renewed(self, body) ==
    [self EXCEPT !.send = new_request_builder(self.send[1].mock_response).send]

\* MockRequestBuilder::body, form, headers and json: each returns the builder.
MockRequestBuilder_body(self, body) == self
MockRequestBuilder_form(self, form) == self
MockRequestBuilder_headers(self, headers) == self
MockRequestBuilder_json(self, json) == self

\* builder = builder.body(..) and the like: the builder is replaced by the
\* one the method returns.
Chain(b, returned) ==
    /\ panic = "none"
    /\ builders[b].state = "live"
    /\ builders' = [builders EXCEPT ![b] = returned]
    /\ chained' = chained \cup {[builder |-> b, sends |-> builders[b].send[1].count]}
    /\ UNCHANGED <<responses, mock_client, sequence, client_state, calls, panic>>
    /\ UNCHANGED <<response_vars, command_vars, error_vars>>

BuilderBody(b, arg) == Chain(b, MockRequestBuilder_body(builders[b], arg))
BuilderForm(b, arg) == Chain(b, MockRequestBuilder_form(builders[b], arg))
BuilderHeaders(b, arg) == Chain(b, MockRequestBuilder_headers(builders[b], arg))
BuilderJson(b, arg) == Chain(b, MockRequestBuilder_json(builders[b], arg))

ChainNext ==
    \/ \E b \in 1..Len(builders), arg \in Payloads : BuilderBody(b, arg)
    \/ \E b \in 1..Len(builders), arg \in Payloads : BuilderForm(b, arg)
    \/ \E b \in 1..Len(builders), arg \in Payloads : BuilderHeaders(b, arg)
    \/ \E b \in 1..Len(builders), arg \in Payloads : BuilderJson(b, arg)

\* A client built from a list whose URLs are written as they serialize, so
\* that every entry can be matched and have its builder returned.
ChainInit ==
    /\ ClientInit
    /\ \A i \in 1..Len(responses) :
          responses[i].url = Url_as_str(into_url(responses[i].url))

\* The client with the builder methods that do nothing.
SpecChain == ChainInit /\ [][ClientNext \/ ChainNext]_vars

\* ------------------------------------------- MockClient: the other verbs

\* MockClient::post, put, patch and delete: a call of the mocked method, which
\* returns the builder its expectation makes.
ClientVerb(method, url) ==
    /\ panic = "none"
    /\ client_state = "live"
    /\ LET r == mock_call(mock_client[method], sequence, url) IN
       /\ mock_client' = [mock_client EXCEPT ![method] = r.exps]
       /\ sequence' = r.level
       /\ panic' = r.panic
       /\ IF r.panic = "none"
          THEN /\ builders' = Append(builders,
                                  new_request_builder(r.exps[r.used].mock_response))
               /\ calls' = Append(calls, [method |-> method, url |-> url, k |-> Accepted,
                                          accepted |-> TRUE, builder |-> Len(builders) + 1])
          ELSE /\ builders' = builders
               /\ calls' = Append(calls, [method |-> method, url |-> url, k |-> Accepted,
                                          accepted |-> FALSE, builder |-> 0])
    /\ UNCHANGED <<responses, client_state, chained>>
    /\ UNCHANGED <<response_vars, command_vars, error_vars>>

Post(url) == ClientVerb("post", url)
Put(url) == ClientVerb("put", url)
Patch(url) == ClientVerb("patch", url)
Delete(url) == ClientVerb("delete", url)

VerbNext ==
    \/ \E url \in UrlTexts : Post(url)
    \/ \E url \in UrlTexts : Put(url)
    \/ \E url \in UrlTexts : Patch(url)
    \/ \E url \in UrlTexts : Delete(url)

\* A client built from a list whose URLs are all written with their path.
VerbInit ==
    /\ ClientInit
    /\ \A i \in 1..Len(responses) : responses[i].url.path = "/"

\* The client with all five verbs.
SpecVerbs == VerbInit /\ [][ClientNext \/ VerbNext]_vars

\* ------------------------------------------------------------ MockResponse

\* Arc::new and the dereference of an Arc.
Arc_new(v) == [ptr |-> v]
Arc_deref(a) == a.ptr

\* The bodies a test gives a response, as bytes: {"x":1}, {"x":2}, hi, the
\* empty body, the two-byte character U+00E9, and two texts that are not UTF-8.
Bodies ==
    { <<123, 34, 120, 34, 58, 49, 125>>, <<123, 34, 120, 34, 58, 50, 125>>,
      <<104, 105>>, <<>>, <<195, 169>>, <<255>>, <<104, 195>> }

StatusCodes == {200, 399, 400, 404, 499, 500, 599, 600}

HeaderMaps == { <<>>, <<[name |-> "content-type", value |-> "application/json"]>> }

\* create_mock_response, and responses whose body is a carried error.
MockResponses ==
    [url : { into_url(t) : t \in [host : {"a", "b"}, path : {"/"}] },
     status : StatusCodes,
     headers : HeaderMaps,
     body : { Ok(Arc_new(b)) : b \in Bodies }
            \cup { Err([MockError_default EXCEPT !.is_body = TRUE]) }]

\* String::from_utf8 on one- and two-byte sequences: the characters' code
\* points, or an error when the bytes are not UTF-8.
RECURSIVE from_utf8(_)
from_utf8(bytes) ==
    IF bytes = <<>> THEN Ok(<<>>)
    ELSE IF bytes[1] < 128
    THEN LET rest == from_utf8(Tail(bytes)) IN
         IF rest.ok THEN Ok(<<bytes[1]>> \o rest.val) ELSE rest
    ELSE IF /\ bytes[1] >= 194 /\ bytes[1] <= 223 /\ Len(bytes) >= 2
            /\ bytes[2] >= 128 /\ bytes[2] <= 191
    THEN LET rest == from_utf8(Tail(Tail(bytes))) IN
         IF rest.ok
         THEN Ok(<<(bytes[1] - 192) * 64 + (bytes[2] - 128)>> \o rest.val)
         ELSE rest
    ELSE Err("FromUtf8Error")

\* serde_json::from_slice into a type with one single-digit field x: the
\* decoded value of {"x":d}, or an error for any other of the bodies.
from_json_slice(bytes) ==
    IF /\ Len(bytes) = 7
       /\ SubSeq(bytes, 1, 5) = <<123, 34, 120, 34, 58>>
       /\ bytes[6] >= 48 /\ bytes[6] <= 57
       /\ bytes[7] = 125
    THEN Ok([x |-> bytes[6] - 48])
    ELSE Err("serde_json::Error")

\* Mutant of MockResponse_bytes: reading the body takes it out of the response.
MockResponse_bytes_take(self) ==
    [ret |-> IF self.body.ok THEN Ok(Arc_deref(self.body.val)) ELSE self.body,
     self |-> [self EXCEPT !.body = Ok(Arc_new(<<>>))]]

\* MockResponse::bytes: a clone of the stored body, or the carried error.
MockResponse_bytes(self) ==
    [ret |-> IF self.body.ok THEN Ok(Arc_deref(self.body.val)) ELSE self.body,
     self |-> self]

\* MockResponse::text: the bytes as a String; unwrap panics on bytes that are
\* not UTF-8.
MockResponse_text(self) ==
    LET bytes == MockResponse_bytes(self) IN
    IF ~bytes.ret.ok
    THEN [ret |-> bytes.ret, self |-> bytes.self, panic |-> "none"]
    ELSE LET string == from_utf8(bytes.ret.val) IN
         IF string.ok
         THEN [ret |-> Ok([chars |-> string.val]), self |-> bytes.self,
               panic |-> "none"]
         ELSE [ret |-> None, self |-> bytes.self,
               panic |-> "called unwrap on an Err value"]

\* MockResponse::json: the bytes decoded from JSON; unwrap panics on bytes that
\* do not decode.
MockResponse_json(self) ==
    LET bytes == MockResponse_bytes(self) IN
    IF ~bytes.ret.ok
    THEN [ret |-> bytes.ret, self |-> bytes.self, panic |-> "none"]
    ELSE LET value == from_json_slice(bytes.ret.val) IN
         IF value.ok
         THEN [ret |-> Ok(value.val), self |-> bytes.self, panic |-> "none"]
         ELSE [ret |-> None, self |-> bytes.self,
               panic |-> "called unwrap on an Err value"]

\* MockResponse::bytes_stream: stream::once over a future that owns a clone of
\* the body and resolves to it.
MockResponse_bytes_stream(self) ==
    [future |-> Some(self.body), polls |-> <<>>]

\* Mutant of Once_poll_next: the future is left in place after it resolved.
Once_poll_next_again(stream) ==
    IF stream.future.some
    THEN LET body == stream.future.val IN
         [item |-> Some(IF body.ok THEN Ok(Arc_deref(body.val)) ELSE body),
          stream |-> stream]
    ELSE [item |-> None, stream |-> stream]

\* Polling the stream: the future's output the first time, which drops the
\* future; the end of the stream once the future is gone.
Once_poll_next(stream) ==
    IF stream.future.some
    THEN LET body == stream.future.val IN
         [item |-> Some(IF body.ok THEN Ok(Arc_deref(body.val)) ELSE body),
          stream |-> [stream EXCEPT !.future = None]]
    ELSE [item |-> None, stream |-> stream]

\* Mutant of is_client_error: the lower end of the range is left out.
is_client_error_above_400(status) == status > 400 /\ status < 500

\* StatusCode::is_client_error and StatusCode::is_server_error.
is_client_error(status) == status >= 400 /\ status < 500
is_server_error(status) == status >= 500 /\ status < 600

\* MockResponse::error_for_status and error_for_status_ref: the status error
\* for a client or server error status, the response itself otherwise.
MockResponse_error_for_status(self) ==
    IF is_client_error(self.status) \/ is_server_error(self.status)
    THEN Err([MockError_default EXCEPT
                !.is_status = TRUE,
                !.status = Some(self.status),
                !.url = Some(self.url)])
    ELSE Ok(self)

BodyAccessors == {"bytes", "text", "json"}

ResponseInit ==
    /\ ErrorUnused
    /\ ClientUnused
    /\ CommandUnused
    /\ panic = "none"
    /\ built \in MockResponses
    /\ response = built
    /\ response_state = "live"
    /\ first_result = [op \in BodyAccessors |-> None]
    /\ last_result = [op \in BodyAccessors |-> None]
    /\ status_results = [op \in {"error_for_status", "error_for_status_ref"} |-> None]
    /\ streams = <<>>

\* A body accessor returned r (or aborted the run): the response afterwards
\* and the record of what it returned.
Accessed(op, r) ==
    /\ response' = r.self
    /\ panic' = r.panic
    /\ IF r.panic = "none"
       THEN /\ last_result' = [last_result EXCEPT ![op] = Some(r.ret)]
            /\ first_result' =
                 IF first_result[op].some THEN first_result
                 ELSE [first_result EXCEPT ![op] = Some(r.ret)]
       ELSE UNCHANGED <<first_result, last_result>>
    /\ UNCHANGED <<built, response_state, status_results, streams>>
    /\ UNCHANGED <<client_vars, command_vars, error_vars>>

\* response.bytes().await
Bytes ==
    /\ panic = "none"
    /\ response_state = "live"
    /\ LET r == MockResponse_bytes(response) IN
       Accessed("bytes", [ret |-> r.ret, self |-> r.self, panic |-> "none"])

\* response.text().await
Text ==
    /\ panic = "none"
    /\ response_state = "live"
    /\ Accessed("text", MockResponse_text(response))

\* response.json::<T>().await
Json ==
    /\ panic = "none"
    /\ response_state = "live"
    /\ Accessed("json", MockResponse_json(response))

\* response.bytes_stream()
BytesStream ==
    /\ panic = "none"
    /\ response_state = "live"
    /\ Len(streams) < MaxStreams
    /\ streams' = Append(streams, MockResponse_bytes_stream(response))
    /\ UNCHANGED <<built, response, response_state, first_result, last_result,
                   status_results, panic>>
    /\ UNCHANGED <<client_vars, command_vars, error_vars>>

\* stream.next().await on stream s
PollStream(s) ==
    /\ panic = "none"
    /\ Len(streams[s].polls) < MaxPolls
    /\ LET r == Once_poll_next(streams[s]) IN
       streams' = [streams EXCEPT
                     ![s] = [r.stream EXCEPT !.polls = Append(@, r.item)]]
    /\ UNCHANGED <<built, response, response_state, first_result, last_result,
                   status_results, panic>>
    /\ UNCHANGED <<client_vars, command_vars, error_vars>>

\* response.error_for_status(), which consumes the response
ErrorForStatus ==
    /\ panic = "none"
    /\ response_state = "live"
    /\ status_results' = [status_results EXCEPT
                            !["error_for_status"] =
                                Some(MockResponse_error_for_status(response))]
    /\ response_state' = "moved"
    /\ UNCHANGED <<built, response, first_result, last_result, streams, panic>>
    /\ UNCHANGED <<client_vars, command_vars, error_vars>>

\* response.error_for_status_ref()
ErrorForStatusRef ==
    /\ panic = "none"
    /\ response_state = "live"
    /\ status_results' = [status_results EXCEPT
                            !["error_for_status_ref"] =
                                Some(MockResponse_error_for_status(response))]
    /\ UNCHANGED <<built, response, response_state, first_result, last_result,
                   streams, panic>>
    /\ UNCHANGED <<client_vars, command_vars, error_vars>>

ResponseNext ==
    \/ Bytes
    \/ Text
    \/ Json
    \/ BytesStream
    \/ \E s \in 1..Len(streams) : PollStream(s)
    \/ ErrorForStatus
    \/ ErrorForStatusRef

SpecResponse == ResponseInit /\ [][ResponseNext]_vars

\* ------------------------------------------------------------- FakeCommand

\* The program name and the words of the other invocation arguments.
Program == "prog"
ArgWords == {"-v", "x"}

\* The invocation arguments a process can have: the program name, then up to
\* MaxArgs words.
Invocations ==
    { <<Program>> \o a : a \in UNION { [1..n -> ArgWords] : n \in 0..MaxArgs } }

\* The lists a caller may pass to args.
ArgLists == UNION { [1..n -> ArgWords \cup {Program}] : n \in 0..(MaxArgs + 1) }

\* IoError::from_raw_os_error
IoError_from_raw_os_error(code) == [raw_os_error |-> code]

\* One expectation of FakeCommand::new: exactly once, at place seq of the
\* sequence.
expect_once(withf, seq, returning) ==
    [withf |-> withf, times_min |-> 1, times_max |-> 1, count |-> 0,
     in_sequence |-> TRUE, seq |-> seq, returning |-> returning]

\* Mutant of FakeCommand_new: the exec expectation is not put in the sequence.
FakeCommand_new_exec_unsequenced ==
    [args |-> <<expect_once("args", 0, "unit")>>,
     stdin |-> <<expect_once("any", 1, "unit")>>,
     stdout |-> <<expect_once("any", 2, "unit")>>,
     stderr |-> <<expect_once("any", 3, "unit")>>,
     exec |-> <<[expect_once("any", 4, IoError_from_raw_os_error(0))
                   EXCEPT !.in_sequence = FALSE]>>]

\* FakeCommand::new: the MockCommand with its five expectations, args, stdin,
\* stdout, stderr and exec, each once and in that order.
FakeCommand_new ==
    [args |-> <<expect_once("args", 0, "unit")>>,
     stdin |-> <<expect_once("any", 1, "unit")>>,
     stdout |-> <<expect_once("any", 2, "unit")>>,
     stderr |-> <<expect_once("any", 3, "unit")>>,
     exec |-> <<expect_once("any", 4, IoError_from_raw_os_error(0))>>]

CommandInit ==
    /\ ErrorUnused
    /\ ClientUnused
    /\ ResponseUnused
    /\ panic = "none"
    /\ argv \in Invocations
    /\ command = FakeCommand_new
    /\ command_sequence = 0
    /\ command_state = "live"
    /\ command_calls = <<>>

\* Number of calls on the FakeCommand accepted so far.
CommandAccepted ==
    Cardinality({ j \in 1..Len(command_calls) : command_calls[j].accepted })

\* A method of FakeCommand: it calls the same method of the MockCommand and
\* returns what wraps: the wrapper itself for the configuration methods, the
\* mock's return value for exec.
FakeCommand_call(method, arg, wraps) ==
    /\ panic = "none"
    /\ command_state = "live"
    /\ LET r == mock_call(command[method], command_sequence, arg) IN
       /\ command' = [command EXCEPT ![method] = r.exps]
       /\ command_sequence' = r.level
       /\ panic' = r.panic
       /\ command_calls' =
            Append(command_calls,
                   [method |-> method, arg |-> arg, k |-> CommandAccepted,
                    accepted |-> r.panic = "none",
                    ret |-> IF r.panic # "none" THEN None
                            ELSE IF wraps = "self" THEN Some("self")
                            ELSE Some(r.exps[r.used].returning)])
    /\ UNCHANGED <<argv, command_state>>
    /\ UNCHANGED <<client_vars, response_vars, error_vars>>

\* FakeCommand::args(list)
Args(list) == FakeCommand_call("args", list, "self")

\* FakeCommand::stdin(MockStdio::inherit())
Stdin == FakeCommand_call("stdin", "MockStdio", "self")

\* FakeCommand::stdout(MockStdio::inherit())
Stdout == FakeCommand_call("stdout", "MockStdio", "self")

\* FakeCommand::stderr(MockStdio::inherit())
Stderr == FakeCommand_call("stderr", "MockStdio", "self")

\* FakeCommand::exec()
Exec == FakeCommand_call("exec", "none", "returning")

\* Dropping the FakeCommand verifies the expectations of its MockCommand.
DropCommand ==
    /\ panic = "none"
    /\ command_state = "live"
    /\ IF \A method \in DOMAIN command : verify(command[method])
       THEN /\ command_state' = "verified"
            /\ panic' = panic
       ELSE /\ command_state' = "failed"
            /\ panic' = "called fewer times than expected"
    /\ UNCHANGED <<argv, command, command_sequence, command_calls>>
    /\ UNCHANGED <<client_vars, response_vars, error_vars>>

CommandNext ==
    \/ \E list \in ArgLists : Args(list)
    \/ Stdin
    \/ Stdout
    \/ Stderr
    \/ Exec
    \/ DropCommand

SpecCommand == CommandInit /\ [][CommandNext]_vars

\* --------------------------------------------------------------- MockError

\* The errors a test constructs: any of two flags set, with or without a
\* status, with or without a URL.
ErrorUrls == { into_url(t) : t \in [host : {"a", "b"}, path : {"/"}] }

MockErrors ==
    { [MockError_default EXCEPT
         !.is_status = f[1], !.is_timeout = f[2], !.status = st, !.url = u] :
      f \in BOOLEAN \X BOOLEAN,
      st \in {None, Some(404)},
      u \in {None} \cup { Some(x) : x \in ErrorUrls } }

\* Mutant of MockError_with_url: a URL already present is kept.
MockError_with_url_keeping(self, url) ==
    IF self.url.some THEN self ELSE [self EXCEPT !.url = Some(url)]

\* MockError::with_url: the error with the URL set, overwriting any other.
MockError_with_url(self, url) == [self EXCEPT !.url = Some(url)]

\* MockError::without_url: the error with no URL.
MockError_without_url(self) == [self EXCEPT !.url = None]

ErrorInit ==
    /\ ClientUnused
    /\ ResponseUnused
    /\ CommandUnused
    /\ panic = "none"
    /\ error_built \in MockErrors
    /\ error = error_built
    /\ error_ops = <<>>

\* error = error.with_url(url)
WithUrl(url) ==
    /\ Len(error_ops) < MaxErrorOps
    /\ error' = MockError_with_url(error, url)
    /\ error_ops' = Append(error_ops, [op |-> "with_url", url |-> Some(url)])
    /\ UNCHANGED <<error_built, panic>>
    /\ UNCHANGED <<client_vars, response_vars, command_vars>>

\* error = error.without_url()
WithoutUrl ==
    /\ Len(error_ops) < MaxErrorOps
    /\ error' = MockError_without_url(error)
    /\ error_ops' = Append(error_ops, [op |-> "without_url", url |-> None])
    /\ UNCHANGED <<error_built, panic>>
    /\ UNCHANGED <<client_vars, response_vars, command_vars>>

ErrorNext ==
    \/ \E url \in ErrorUrls : WithUrl(url)
    \/ WithoutUrl

SpecError == ErrorInit /\ [][ErrorNext]_vars

\* ------------------------------------------------------------ client claims

NumEntries == Len(responses)

\* The calls made so far are get(u1), get(u2), ... with the URLs of the list,
\* as given in the list, in list order.
InListOrder ==
    /\ Len(calls) <= NumEntries
    /\ \A j \in 1..Len(calls) :
          calls[j].method = "get" /\ calls[j].url = responses[j].url

\* The list has been called through in order and every builder sent once.
RunComplete ==
    /\ InListOrder
    /\ Len(calls) = NumEntries
    /\ Len(builders) = NumEntries
    /\ \A b \in 1..Len(builders) : builders[b].send[1].count = 1

\* C1: calling get with u1..un in list order and send once on each returned
\* builder yields r1..rn, no call is rejected, and verification of the client
\* and of every builder succeeds.
C1_InOrderCallsYieldResults ==
    /\ InListOrder =>
          /\ \A j \in 1..Len(calls) : calls[j].accepted /\ calls[j].builder = j
          /\ \A b \in 1..Len(builders) :
                \A s \in 1..Len(builders[b].returned) :
                    builders[b].returned[s] = responses[b].result
    /\ RunComplete =>
          /\ \A b \in 1..Len(builders) :
                builders[b].returned = <<responses[b].result>>
                /\ builders[b].state # "failed"
          /\ client_state # "failed"
          /\ panic = "none"

\* C2: after k accepted get calls a further get is accepted only if k < n and
\* its URL matches entry k+1; any other get call is a mock-expectation failure
\* and returns no builder.
C2_OnlyNextEntryAccepted ==
    \A j \in 1..Len(calls) :
        LET c == calls[j] IN
        /\ c.accepted =>
              /\ c.k < NumEntries
              /\ into_url(c.url) = into_url(responses[c.k + 1].url)
              /\ c.builder = c.k + 1
        /\ (c.k >= NumEntries \/ into_url(c.url) # into_url(responses[c.k + 1].url)) =>
              /\ ~c.accepted
              /\ panic # "none"
              /\ c.builder = 0
              /\ Len(builders) = c.k

\* C2 witness: with two entries of different URLs, the first call made was a
\* get of the second entry's URL, and it was rejected as a sequence violation.
C2_Witness ==
    /\ NumEntries = 2
    /\ into_url(responses[1].url) # into_url(responses[2].url)
    /\ Len(calls) = 1
    /\ calls[1].url = responses[2].url
    /\ ~calls[1].accepted
    /\ panic = "Method sequence violation"

\* C3: a client verified after fewer than n accepted get calls reports the
\* missing calls as a failure; verification succeeds only when every entry has
\* been matched by exactly one get call.
C3_MissingCallsFailVerification ==
    /\ client_state = "verified" =>
          /\ Accepted = NumEntries
          /\ \A i \in 1..NumEntries : mock_client.get[i].count = 1
    /\ (client_state # "live" /\ Accepted < NumEntries) =>
          /\ client_state = "failed"
          /\ panic = "called fewer times than expected"

\* C3 witness: a client with two entries was dropped after one accepted call
\* and its verification failed.
C3_Witness ==
    /\ NumEntries = 2
    /\ Accepted = 1
    /\ client_state = "failed"

\* C4: a get call whose argument normalizes to the same URL as the next
\* entry's URL is accepted as a match for that entry.
C4_NormalizedMatchAccepted ==
    \A j \in 1..Len(calls) :
        LET c == calls[j] IN
        (c.k < NumEntries /\ into_url(c.url) = into_url(responses[c.k + 1].url))
            => c.accepted

\* The list entry an accepted call matched: the builder it returned is paired
\* with that entry's result.
PairedResult(b) ==
    LET j == CHOOSE j \in 1..Len(calls) : calls[j].builder = b
    IN  responses[calls[j].k + 1].result

\* C5: each builder returned by an accepted get is a fresh builder whose send
\* returns the paired result exactly once; a second send is a failure, and so
\* is verifying a builder on which send was never called.
C5_BuilderSendsOnce ==
    /\ Len(builders) = Accepted
    /\ \A b \in 1..Len(builders) :
        LET e == builders[b].send[1] IN
        /\ Cardinality({ j \in 1..Len(calls) : calls[j].builder = b }) = 1
        /\ e.count <= 2
        /\ e.count <= 1 => Len(builders[b].returned) = e.count
        /\ e.count = 2 =>
              /\ Len(builders[b].returned) = 1
              /\ panic = "called more times than expected"
        /\ \A s \in 1..Len(builders[b].returned) :
              builders[b].returned[s] = PairedResult(b)
        /\ builders[b].state = "verified" => e.count = 1
        /\ (builders[b].state # "live" /\ e.count = 0) =>
              /\ builders[b].state = "failed"
              /\ panic = "called fewer times than expected"

\* C5 witness: send was called twice on the second builder; the first call
\* returned the paired result and the second was rejected.
C5_Witness ==
    /\ Len(builders) = 2
    /\ builders[2].send[1].count = 2
    /\ builders[2].returned = <<responses[2].result>>
    /\ responses[1].result # responses[2].result
    /\ panic = "called more times than expected"

\* ---------------------------------------------------------- response claims

\* The status error derived from the response as constructed.
StatusError ==
    [is_body |-> FALSE, is_builder |-> FALSE, is_connect |-> FALSE,
     is_decode |-> FALSE, is_redirect |-> FALSE, is_request |-> FALSE,
     is_status |-> TRUE, is_timeout |-> FALSE,
     status |-> Some(built.status), url |-> Some(built.url)]

\* C6: for a status from 400 to 599 error_for_status and error_for_status_ref
\* return a MockError with is_status set, the status and the URL attached and
\* every other flag false; for any other status they return the response
\* unchanged; error_for_status_ref leaves the response unmodified.
C6_ErrorForStatus ==
    /\ \A op \in DOMAIN status_results :
          status_results[op].some =>
              IF built.status >= 400 /\ built.status <= 599
              THEN status_results[op].val = Err(StatusError)
              ELSE status_results[op].val = Ok(built)
    /\ response_state # "unused" => response = built

\* C6 witness: both operations were applied to a response with status 599
\* and both returned the status error.
C6_Witness ==
    /\ response_state = "moved"
    /\ built.status = 599
    /\ status_results["error_for_status_ref"] = Some(Err(StatusError))
    /\ status_results["error_for_status"] = Some(Err(StatusError))

\* What each body accessor returns for the response as constructed, when it
\* returns: the stored body, as bytes, text or decoded value, or the carried
\* error.
StoredBody(op) ==
    IF ~built.body.ok THEN Err(built.body.val)
    ELSE LET bytes == built.body.val.ptr IN
         CASE op = "bytes" -> Ok(bytes)
           [] op = "text" -> Ok([chars |-> from_utf8(bytes).val])
           [] op = "json" -> Ok(from_json_slice(bytes).val)

C8_StreamYieldsBodyOnce ==
    \A s \in 1..Len(streams) :
        \A p \in 1..Len(streams[s].polls) :
            IF p = 1
            THEN streams[s].polls[p] = Some(StoredBody("bytes"))
            ELSE streams[s].polls[p] = None

\* C8 witness: a stream was polled three times; it yielded the two-byte body
\* and then reported its end twice.
C8_Witness ==
    \E s \in 1..Len(streams) :
        streams[s].polls = <<Some(Ok(<<195, 169>>)), None, None>>

\* ----------------------------------------------------------- command claims

\* The one call sequence FakeCommand::new expects.
ExpectedOrder == <<"args", "stdin", "stdout", "stderr", "exec">>

\* The calls made so far follow the expected order, args being given the
\* invocation arguments without the program name.
InExpectedOrder ==
    /\ Len(command_calls) <= Len(ExpectedOrder)
    /\ \A j \in 1..Len(command_calls) :
          /\ command_calls[j].method = ExpectedOrder[j]
          /\ j = 1 => command_calls[j].arg = Tail(argv)

\* C9: a FakeCommand driven through args(a), stdin, stdout, stderr, exec in
\* that order, a being the invocation arguments without the program name, has
\* every call accepted; each configuration call returns the wrapper, exec
\* returns an OS error of raw code 0, and verification succeeds.
C9_ExpectedOrderSucceeds ==
    /\ InExpectedOrder =>
          \A j \in 1..Len(command_calls) :
              /\ command_calls[j].accepted
              /\ command_calls[j].ret =
                    IF j < 5 THEN Some("self") ELSE Some([raw_os_error |-> 0])
    /\ (InExpectedOrder /\ Len(command_calls) = 5) =>
          /\ panic = "none"
          /\ command_state \in {"live", "verified"}

\* C9 witness: a process invoked with two arguments made the five calls in
\* order and the FakeCommand was verified.
C9_Witness ==
    /\ Len(argv) = 3
    /\ InExpectedOrder
    /\ Len(command_calls) = 5
    /\ command_calls[5].ret = Some([raw_os_error |-> 0])
    /\ command_state = "verified"

\* C10: every call sequence other than args, stdin, stdout, stderr, exec, each
\* once and in that order, is a mock-expectation failure: a call out of order,
\* a second call of a method, an args call with another list than the
\* invocation arguments without the program name, or verification with a call
\* omitted.
C10_AnyDeviationFails ==
    /\ \A j \in 1..Len(command_calls) :
          LET c == command_calls[j] IN
          /\ c.accepted <=>
                /\ c.k < 5
                /\ c.method = ExpectedOrder[c.k + 1]
                /\ c.method = "args" => c.arg = Tail(argv)
          /\ ~c.accepted => panic # "none" /\ c.ret = None
    /\ command_state = "verified" =>
          /\ Len(command_calls) = 5
          /\ InExpectedOrder
    /\ (command_state \in {"verified", "failed"} /\ CommandAccepted < 5) =>
          /\ command_state = "failed"
          /\ panic = "called fewer times than expected"

\* C10 witness: exec was called before stderr and was rejected as a sequence
\* violation.
C10_Witness ==
    /\ Len(command_calls) = 4
    /\ command_calls[4].method = "exec"
    /\ command_calls[4].k = 3
    /\ ~command_calls[4].accepted
    /\ panic = "Method sequence violation"

\* ------------------------------------------------------------- error claims

\* C11: with_url(u) followed by without_url() leaves url = None whatever the
\* error's URL was before; with_url(u) alone leaves url = Some(u), overwriting
\* any previous URL.
C11_WithUrlThenWithoutUrl ==
    LET n == Len(error_ops) IN
    /\ (n >= 1 /\ error_ops[n].op = "with_url") =>
          error.url = error_ops[n].url
    /\ (n >= 2 /\ error_ops[n - 1].op = "with_url"
               /\ error_ops[n].op = "without_url") =>
          error.url = None

\* C11 witness: an error constructed with URL a was given URL b and then
\* stripped of its URL, and has none.
C11_Witness ==
    /\ Len(error_ops) = 2
    /\ error_built.url = Some(into_url([host |-> "a", path |-> "/"]))
    /\ error_ops[1].op = "with_url"
    /\ error_ops[1].url = Some(into_url([host |-> "b", path |-> "/"]))
    /\ error_ops[2].op = "without_url"
    /\ error.url = None

\* ------------------------------------------------------------ chain claims

\* C12: body, form, json and headers do nothing and return the builder
\* unchanged: on a builder on which any of them was called, the send
\* expectation is as create_mock_client made it, one send returns the paired
\* result, and verification succeeds or fails as it would without the calls.
C12_ChainedBuilderUnchanged ==
    \A c \in chained :
        LET b == c.builder
            e == builders[b].send[1]
        IN  /\ Len(builders[b].send) = 1
            /\ e.times_min = 1 /\ e.times_max = 1
            /\ e.mock_response = PairedResult(b)
            /\ c.sends <= e.count
            /\ e.count <= 1 => Len(builders[b].returned) = e.count
            /\ e.count = 2 =>
                  /\ Len(builders[b].returned) = 1
                  /\ panic = "called more times than expected"
            /\ \A s \in 1..Len(builders[b].returned) :
                  builders[b].returned[s] = PairedResult(b)
            /\ (builders[b].state # "live" /\ e.count = 1) =>
                  builders[b].state = "verified"
            /\ (builders[b].state # "live" /\ e.count = 0) =>
                  builders[b].state = "failed"

\* C12 witness: one of the four methods was called on the second builder
\* before any send; send then returned the paired result, and the builder and
\* the client were verified.
C12_Witness ==
    /\ Len(builders) = 2
    /\ [builder |-> 2, sends |-> 0] \in chained
    /\ builders[2].returned = <<responses[2].result>>
    /\ responses[1].result # responses[2].result
    /\ builders[2].state = "verified"
    /\ client_state = "verified"
    /\ panic = "none"

\* ------------------------------------------------------- send order claims

\* No get was rejected, no verification failed and send was called at most
\* once on each builder.
NoOtherFailure ==
    /\ \A j \in 1..Len(calls) : calls[j].accepted
    /\ client_state # "failed"
    /\ \A b \in 1..Len(builders) :
          builders[b].state # "failed" /\ builders[b].send[1].count <= 1

\* C13: the order of create_mock_client binds the get calls only: the sends
\* of the builders obtained may come in any order, each is accepted, and the
\* send of builder i returns r_i whatever sends came before it.
C13_SendsInAnyOrder ==
    /\ NoOtherFailure => panic = "none"
    /\ \A b \in 1..Len(builders) :
          builders[b].send[1].count >= 1 =>
              /\ Len(builders[b].returned) = 1
              /\ builders[b].returned[1] = PairedResult(b)

\* C13 witness: both builders were obtained, then send was called on the
\* second, which returned r_2, while send on the first is still to come; a
\* later state has both sent, the first having returned r_1.
C13_Witness ==
    /\ Len(builders) = 2
    /\ responses[1].result # responses[2].result
    /\ builders[1].send[1].count = 0
    /\ builders[1].state = "live"
    /\ builders[2].returned = <<responses[2].result>>
    /\ panic = "none"

\* ------------------------------------------------------------- verb claims

\* C14: create_mock_client registers expectations for get only: a call of
\* post, put, patch or delete, with any URL and at any point, is a
\* mock-expectation failure, returns no builder, and neither consumes nor
\* advances a get entry.
C14_OtherVerbsRejected ==
    \A j \in 1..Len(calls) :
        LET c == calls[j] IN
        c.method # "get" =>
            /\ ~c.accepted
            /\ c.builder = 0
            /\ panic = "No matching expectation found"
            /\ Len(builders) = c.k
            /\ sequence = c.k
            /\ \A i \in 1..NumEntries :
                  mock_client.get[i].count = IF i <= c.k THEN 1 ELSE 0

\* C14 witness: after the get of the first entry was accepted, post was
\* called with the URL of the second entry, the one a get could use next; it
\* was rejected and the second entry is still unused.
C14_Witness ==
    /\ NumEntries = 2
    /\ Len(calls) = 2
    /\ calls[1].accepted
    /\ calls[2].method = "post"
    /\ calls[2].url = responses[2].url
    /\ calls[2].url = Url_as_str(into_url(responses[2].url))
    /\ ~calls[2].accepted
    /\ mock_client.get[2].count = 0
    /\ panic = "No matching expectation found"

====
